---- MODULE Spec2Model ----
\* Model of android_env/components/adb_controller.py (AdbController):
\* the command lock, the one-shot path, the interactive shell session with
\* its send and spawn retry loops, close(), and the readiness probe.
\*
\* The device output is a sequence of tokens (one token per line of output).
\* A token records what kind of line it is, the command (call number) the
\* device produced it for, and, for a check-pattern line, which pattern it
\* matches.  pexpect's expect() is modelled on that stream: it reads what the
\* device has delivered, stops at the first token matching the pattern
\* (before = what precedes it, after = the match, the rest stays buffered),
\* raises EOF when the process has ended and nothing matches, and TIMEOUT
\* otherwise (before = everything buffered, buffer kept).
EXTENDS Integers, Sequences, FiniteSets, TLC

\* ---------------------------------------------------------------- bounds
NumThreads == 2
ConcCalls == 2
MaxFaults == 0
MaxCalls == 4
LiveCalls == 1
MaxTries == 1
MaxChecks == 2
MaxCloses == 1
SeqCalls == 2
SeqCloses == 2
SrvFaults == 1
NumListeners == 2
MaxLines == 1
MaxKills == 2
MaxFilters == 2

\* ------------------------------------------------------ program constants
MAX_INIT_RETRIES == 20
max_num_retries == 3
NumServices == 4

Threads == 1..NumThreads
Platforms == {"win32", "posix"}
\* Command lines a caller may pass: 0 is some other shell command, s > 0 is
\* `service check <required_services[s]>`.
Lines == 0..NumServices
PROMPT == -1

Tok(kind, cmd, pat) == [k |-> kind, c |-> cmd, s |-> pat]

VARIABLES
  platform,        \* sys.platform
  budget,          \* what the environment may still do: calls it makes,
                   \* and (when limited) transport failures it may cause
  lock,            \* _execute_command_lock: 0 free, else the holding thread
  adb_shell,       \* _adb_shell: FALSE is None, TRUE an expect object
  shell_is_ready,  \* _shell_is_ready
  alive,           \* the process behind the current _adb_shell is running
  pend,            \* what that process will still deliver
  buf,             \* _adb_shell's buffer (read, not yet consumed)
  before,          \* _adb_shell.before while a handler may still read it:
                   \* set by a wait that raised, dropped when the handler is
                   \* done (after a match lines 176-181 read before/after at
                   \* once, inside the step of the wait)
  pc,              \* each thread's position
  caller,          \* the public operation a thread is in
  args,            \* arguments of the thread's _execute_command call
  cid,             \* number of the thread's _execute_command call
  num_tries,       \* _execute_shell_command's num_tries
  init_tries,      \* _init_shell's num_tries
  exc,             \* the exception the send loop caught last (EOF, TIMEOUT)
  result,          \* how the call ended
  output,          \* the value returned
  ncalls,          \* calls of _execute_command made so far
  ncloses,         \* calls of close() made so far
  wfd,             \* _wait_for_device / _check_device_is_ready locals
  hist,            \* per call: what happened so far (for the properties)
  needs_reinit,    \* a send failed and no _init_shell has succeeded since
  closed,          \* close() has ended and no shell was spawned since
  device,          \* the constructor's device_name argument ("" for none)
  device_name,     \* _device_name
  device_name_tmp, \* init_server's device_name_tmp
  print_all_lines, \* LogcatThread's print_all_lines argument
  listeners,       \* the registered listeners
  lactive,         \* each registered listener's active flag
  fed,             \* every line the log subprocess has written so far
  rd,              \* how many of them the read loop has taken
  loop,            \* the read loop's position and the dispatch in progress
  handled,         \* per listener: the lines its handler was invoked for
  waiter,          \* the thread calling wait()
  proc,            \* the log subprocess: "none", "alive" or "dead"
  nkills,          \* calls of kill() made so far
  config,          \* LogcatThread's adb_command_prefix and filters
  popen            \* the argument lists subprocess.Popen was called with

vars == <<platform, budget, lock, adb_shell, shell_is_ready, alive, pend, buf, before,
          pc, caller, args, cid, num_tries, init_tries, exc, result, output,
          ncalls, ncloses, wfd, hist, needs_reinit, closed, device,
          device_name, device_name_tmp, print_all_lines, listeners, lactive,
          fed, rd, loop, handled, waiter, proc, nkills, config, popen>>

procVars == <<nkills, config, popen>>
logVars == <<print_all_lines, listeners, lactive, fed, rd, loop, handled,
             waiter, proc, procVars>>
adbVars == <<platform, budget, lock, adb_shell, shell_is_ready, alive, pend, buf,
             before, pc, caller, args, cid, num_tries, init_tries, exc, result,
             output, ncalls, ncloses, wfd, hist, needs_reinit, closed, device,
             device_name, device_name_tmp>>

shellVars == <<adb_shell, shell_is_ready, alive, pend, buf, before>>
localVars == <<args, cid, num_tries, init_tries, exc, result, output, hist>>
srvVars == <<device, device_name, device_name_tmp>>

NoArgs == [shell |-> FALSE, line |-> 0, chk |-> FALSE]
NoWfd == [max_tries |-> 0, num_tries |-> 0, checks |-> 0, svc |-> 0,
          genuine |-> TRUE, ready |-> "none"]
\* allfail: inside _init_shell, no spawn so far has produced a process that
\* prints a prompt.
\* orphan: _init_shell has replaced, in this call, a shell object whose
\* process was still running.
\* cmd: the local `command` (lines 136, 216) while its subprocess is being
\* started, <<>> otherwise.
NoHist == [allfail |-> TRUE, orphan |-> FALSE, cmd |-> <<>>]

\* ------------------------------------------------------------ LogcatThread
\* The log monitor (android_env/components/logcat_thread.py, exercised by
\* logcat_thread_test.py): one background loop reads the lines of the log
\* subprocess, parses each one and dispatches it to the registered
\* listeners; wait() blocks a caller until the loop signals a match or the
\* timeout fires.
Listeners == 1..NumListeners

\* The pattern of each listener ('Hello world' is the test's my_event).
PatternOf(l) == IF l = 1 THEN <<"Hello", "world">> ELSE <<"Hello">>

\* wait()'s event argument: None, or a pattern.
NoEvent == [some |-> FALSE, pat |-> <<>>]
Event(p) == [some |-> TRUE, pat |-> p]
Events == {NoEvent} \cup {Event(PatternOf(l)) : l \in Listeners}

\* A line of the epoch layout: timestamp, pid, tid, level, tag, message.
LogHeader == <<"1553110400.424", "5583", "5658", "D", "Tag:">>
make_stdout(data) == LogHeader \o data

\* What the log subprocess may print: lines of the layout, and raw text.
LogLines == {make_stdout(<<"Hello", "world">>), <<"Hi", "there!">>,
             <<"Hello", "there">>}

\* The fixed layout of a log line, and the message of a line that has it.
IsLayout(line) ==
  /\ Len(line) > Len(LogHeader)
  /\ line[1] \in {"1553110400.424"}
  /\ line[2] \in {"5583", "5658"}
  /\ line[3] \in {"5583", "5658"}
  /\ line[4] \in {"V", "D", "I", "W", "E"}
  /\ line[5] \in {"Tag:"}
Message(line) == SubSeq(line, Len(LogHeader) + 1, Len(line))

\* A line without the layout is dropped unless print_all_lines is set.
Discarded(line) == ~IsLayout(line) /\ ~print_all_lines
\* The text listeners' patterns are evaluated against.
Offered(line) == IF IsLayout(line) THEN Message(line) ELSE line

\* Pattern p occurs in text.
Search(p, text) ==
  \E i \in 1..Len(text) :
    /\ i + Len(p) - 1 <= Len(text)
    /\ SubSeq(text, i, i + Len(p) - 1) = p

\* The listeners whose handler has been invoked for line number n.
Fired(n) == {l \in Listeners : \E i \in 1..Len(handled[l]) : handled[l][i] = n}

\* How often line number n occurs in a handler's record.
Count(h, n) == Cardinality({i \in 1..Len(h) : h[i] = n})

NoLoop == [pc |-> "read", no |-> 0, snap |-> {}, todo |-> {}]
\* due: a dispatch of a line this wait is waiting for ended while it was
\* blocked.
\* by: the line that woke the wait.  snap: the listeners that dispatch ran
\* over.  fedBefore: a line matching the event had been fed, and had woken
\* no wait, when this wait began.  quiet: at the timeout the loop had taken
\* every line fed and was idle.  mark: the last line that woke a wait.
\* killed: kill() has unblocked this wait.  atKill: the wait was blocked,
\* with no signal yet, when kill() was called.
NoWaiter == [pc |-> "idle", event |-> NoEvent, signaled |-> FALSE,
             result |-> FALSE, by |-> 0, snap |-> {}, due |-> FALSE,
             fedBefore |-> FALSE, quiet |-> FALSE, mark |-> 0,
             killed |-> FALSE, atKill |-> FALSE]

\* The argument list of the log subprocess.
LogcatCommandUnfiltered(prefix, filters) ==
  prefix \o <<"logcat", "-v", "epoch", "*:S">>
LogcatCommand(prefix, filters) ==
  prefix \o <<"logcat", "-v", "epoch">> \o filters \o <<"*:S">>

\* The configuration of the tests: prefix and _log_parsing_config().
TestConfig == [prefix |-> <<"adb", "-P", "5037">>,
               filters |-> <<"AndroidRLTask:V">>]

\* Command prefixes (without and with a device) and filter lists a
\* LogcatThread may be constructed with.
Prefixes == {<<"adb", "-P", "5037">>,
             <<"adb_bin", "-P", "12345", "-s", "my_device">>}
Filters == {"AndroidRLTask:V", "ActivityManager:I", "Tag:D"}
FilterLists == UNION {[1..n -> Filters] : n \in 0..MaxFilters}
Configs == [prefix : Prefixes, filters : FilterLists]

\* LogcatThread(adb_command_prefix, log_parsing_config) starts the log
\* subprocess and the read loop.
LogcatConstruct ==
  /\ proc = "none"
  /\ proc' = "alive"
  /\ popen' = Append(popen, LogcatCommand(config.prefix, config.filters))
  /\ UNCHANGED <<adbVars, nkills, config, print_all_lines, listeners, lactive,
                 fed, rd, loop, handled, waiter>>

\* The state right after LogcatThread(cfg.prefix, cfg.filters).
Started(cfg) ==
  /\ proc = "alive"
  /\ nkills = 0
  /\ config = cfg
  /\ popen = <<LogcatCommand(cfg.prefix, cfg.filters)>>

LogcatInit(pal) ==
  /\ print_all_lines \in pal
  /\ listeners = {}
  /\ lactive = [l \in Listeners |-> FALSE]
  /\ fed = <<>>
  /\ rd = 0
  /\ loop = NoLoop
  /\ handled = [l \in Listeners |-> <<>>]
  /\ waiter = NoWaiter
  /\ Started(TestConfig)

\* No log monitor is in use.
NoLogcat == LogcatInit({FALSE})

\* add_event_listener(EventListener(PatternOf(l), handler, active=a))
add_event_listener(l, a) ==
  /\ l \notin listeners
  /\ listeners' = listeners \cup {l}
  /\ lactive' = [lactive EXCEPT ![l] = a]
  /\ UNCHANGED <<adbVars, procVars, proc, print_all_lines, fed, rd, loop, handled, waiter>>

remove_event_listener(l) ==
  /\ l \in listeners
  /\ listeners' = listeners \ {l}
  /\ lactive' = [lactive EXCEPT ![l] = FALSE]
  /\ UNCHANGED <<adbVars, procVars, proc, print_all_lines, fed, rd, loop, handled, waiter>>

\* The log subprocess prints a line (FakeStream.send_value in the test).
send_value(line) ==
  /\ proc = "alive"
  /\ Len(fed) < MaxLines
  /\ fed' = Append(fed, line)
  /\ UNCHANGED <<adbVars, procVars, proc, print_all_lines, listeners, lactive, rd, loop,
                 handled, waiter>>

\* The snapshot a dispatch iterates over: the listeners that are registered
\* and active at this moment.
StaleSnapshot == Listeners
Snapshot == {l \in listeners : lactive[l]}

\* The loop takes the next line, parses it, and snapshots the registry.
LoopRead ==
  /\ loop.pc = "read"
  /\ proc = "alive"
  /\ rd < Len(fed)
  /\ rd' = rd + 1
  /\ loop' = IF Discarded(fed[rd + 1])
             THEN NoLoop
             ELSE [pc |-> "dispatch", no |-> rd + 1,
                   snap |-> Snapshot, todo |-> Snapshot]
  /\ UNCHANGED <<adbVars, procVars, proc, print_all_lines, listeners, lactive, fed, handled,
                 waiter>>

\* The listeners of the snapshot still to be served once l has been.
Unserved(todo, l) == todo
Served(todo, l) == todo \ {l}

\* A listener's handler runs for a line when its pattern matches the text
\* offered: the message of a line of the layout, the raw text otherwise.
HandlerRunsOnLayout(l, line) ==
  IsLayout(line) /\ Search(PatternOf(l), Message(line))
HandlerRuns(l, line) == Search(PatternOf(l), Offered(line))

\* The loop evaluates the pattern of the next listener of the snapshot and,
\* on a match, invokes its handler.
LoopHandle(l) ==
  /\ loop.pc = "dispatch"
  /\ l \in loop.todo
  /\ \A k \in loop.todo : l <= k
  /\ handled' = IF HandlerRuns(l, fed[loop.no])
                THEN [handled EXCEPT ![l] = Append(@, loop.no)]
                ELSE handled
  /\ loop' = [loop EXCEPT !.todo = Served(@, l)]
  /\ UNCHANGED <<adbVars, procVars, proc, print_all_lines, listeners, lactive, fed, rd,
                 waiter>>

\* Does a dispatched line wake wait(e)?  With a pattern: the line matches
\* it.  With None: the line matched some listener.
SignalsOnPattern(e, text, fired) == e.some /\ Search(e.pat, text)
Signals(e, text, fired) ==
  IF e.some THEN Search(e.pat, text) ELSE fired # {}

\* Is the line one that wait(e) waits for?  With a pattern: a line matching
\* it.  With None: a line matching the pattern of a listener of the
\* dispatch's snapshot.
Awaited(e, text, snap) ==
  IF e.some THEN Search(e.pat, text)
  ELSE \E l \in snap : Search(PatternOf(l), text)

\* The loop signals the waiter once every listener of the snapshot has been
\* served.
DispatchBegun(todo) == TRUE
DispatchDone(todo) == todo = {}

LoopSignal ==
  /\ loop.pc = "dispatch"
  /\ DispatchDone(loop.todo)
  /\ loop' = NoLoop
  /\ waiter' =
       IF waiter.pc # "blocked" THEN waiter
       ELSE LET hit == ~waiter.signaled
                       /\ ~waiter.killed
                       /\ Signals(waiter.event, Offered(fed[loop.no]),
                                  Fired(loop.no))
            IN [waiter EXCEPT !.due = @ \/ Awaited(waiter.event,
                                                    Offered(fed[loop.no]),
                                                    loop.snap),
                              !.signaled = @ \/ hit,
                              !.by = IF hit THEN loop.no ELSE @,
                              !.snap = IF hit THEN loop.snap ELSE @]
  /\ UNCHANGED <<adbVars, procVars, proc, print_all_lines, listeners, lactive, fed, rd,
                 handled>>

\* wait(event=e, timeout_sec=T) begins.
WaitBegin(e) ==
  /\ waiter.pc = "idle"
  /\ waiter' = [NoWaiter EXCEPT
                  !.pc = "blocked", !.event = e, !.mark = waiter.mark,
                  !.fedBefore =
                     e.some /\ \E n \in (waiter.mark + 1)..Len(fed) :
                                  /\ ~Discarded(fed[n])
                                  /\ Search(e.pat, Offered(fed[n]))]
  /\ UNCHANGED <<adbVars, procVars, proc, print_all_lines, listeners, lactive, fed, rd, loop,
                 handled>>

\* wait returns true only on the loop's signal.
WakeAnyTime(w) == TRUE
WakeOnSignal(w) == w.signaled

\* The signal arrived: wait returns true.
WaitWake ==
  /\ waiter.pc = "blocked"
  /\ WakeOnSignal(waiter)
  /\ waiter' = [waiter EXCEPT !.pc = "returned", !.result = TRUE,
                              !.mark = waiter.by]
  /\ UNCHANGED <<adbVars, procVars, proc, print_all_lines, listeners, lactive, fed, rd, loop,
                 handled>>

\* The timeout fires on a wait that has not been signalled.
TimeoutMayFire(w) == ~w.signaled

WaitTimeout ==
  /\ waiter.pc = "blocked"
  /\ TimeoutMayFire(waiter)
  /\ waiter' = [waiter EXCEPT !.pc = "returned", !.result = FALSE,
                              !.quiet = (rd = Len(fed) /\ loop.pc = "read")]
  /\ UNCHANGED <<adbVars, procVars, proc, print_all_lines, listeners, lactive, fed, rd, loop,
                 handled>>

\* kill() has unblocked the wait: it returns false.
WaitKilled ==
  /\ waiter.pc = "blocked"
  /\ waiter.killed
  /\ waiter' = [waiter EXCEPT !.pc = "returned", !.result = FALSE]
  /\ UNCHANGED <<adbVars, procVars, proc, print_all_lines, listeners, lactive, fed, rd, loop,
                 handled>>

\* What kill() does to the wait in progress: a wait that is blocked with no
\* signal is unblocked as a failure.
LeftBlocked(w) == w
Unblocked(w) ==
  IF w.pc = "blocked" /\ ~w.signaled THEN [w EXCEPT !.killed = TRUE] ELSE w

\* The subprocess after kill().
StillRunning(p) == p
Terminated(p) == "dead"

\* kill(): terminates the subprocess (the stream ends), which makes the
\* read loop exit, and unblocks the wait in progress.
kill ==
  /\ proc # "none"
  /\ nkills < MaxKills
  /\ nkills' = nkills + 1
  /\ proc' = Terminated(proc)
  /\ waiter' = [Unblocked(waiter) EXCEPT
                  !.atKill = @ \/ (waiter.pc = "blocked" /\ ~waiter.signaled)]
  /\ UNCHANGED <<adbVars, config, popen, print_all_lines, listeners, lactive,
                 fed, rd, loop, handled>>

\* The stream has ended: the read loop leaves its for-loop.
LoopExit ==
  /\ loop.pc = "read"
  /\ proc = "dead"
  /\ loop' = [NoLoop EXCEPT !.pc = "exited"]
  /\ UNCHANGED <<adbVars, procVars, proc, print_all_lines, listeners, lactive,
                 fed, rd, handled, waiter>>

\* The caller takes wait's result.
WaitEnd ==
  /\ waiter.pc = "returned"
  /\ waiter' = [NoWaiter EXCEPT !.mark = waiter.mark]
  /\ UNCHANGED <<adbVars, procVars, proc, print_all_lines, listeners, lactive, fed, rd, loop,
                 handled>>

\* Device identifiers a controller may be constructed with.
Devices == {"", "emulator-5554"}

InitWith(b, devs) ==
  /\ platform \in Platforms
  /\ device \in devs
  /\ device_name = device
  /\ device_name_tmp = [t \in Threads |-> ""]
  /\ budget = b
  /\ lock = 0
  /\ adb_shell = FALSE
  /\ shell_is_ready = FALSE
  /\ alive = FALSE
  /\ pend = <<>>
  /\ buf = <<>>
  /\ before = <<>>
  /\ pc = [t \in Threads |-> "idle"]
  /\ caller = [t \in Threads |-> "none"]
  /\ args = [t \in Threads |-> NoArgs]
  /\ cid = [t \in Threads |-> 0]
  /\ num_tries = [t \in Threads |-> 0]
  /\ init_tries = [t \in Threads |-> 0]
  /\ exc = [t \in Threads |-> "none"]
  /\ result = [t \in Threads |-> "none"]
  /\ output = [t \in Threads |-> <<>>]
  /\ ncalls = 0
  /\ ncloses = 0
  /\ wfd = [t \in Threads |-> NoWfd]
  /\ hist = [t \in Threads |-> NoHist]
  /\ needs_reinit = FALSE
  /\ closed = FALSE

\* Several threads use the controller: commands and close() interleave.
\* close() ends the running process under a command; besides that the
\* transport fails at most MaxFaults times.
Init ==
  /\ InitWith([calls |-> ConcCalls, closes |-> MaxCloses, limited |-> TRUE,
            faults |-> MaxFaults], {""})
  /\ NoLogcat

\* One thread uses the controller; the transport fails as often as it likes.
SeqInit ==
  /\ InitWith([calls |-> SeqCalls, closes |-> SeqCloses, limited |-> FALSE,
            faults |-> 0], {""})
  /\ NoLogcat

\* One thread waits for the device; nobody closes the controller.
WfdInit ==
  /\ InitWith([calls |-> MaxCalls, closes |-> 0, limited |-> FALSE,
            faults |-> 0], {""})
  /\ NoLogcat
LiveInit ==
  /\ InitWith([calls |-> LiveCalls, closes |-> MaxCloses, limited |-> FALSE,
            faults |-> 0], {""})
  /\ NoLogcat

\* ------------------------------------------------------------- pexpect
\* Does token tok match pattern pat (PROMPT, or the check pattern of a line)?
Matches(tok, pat) ==
  IF pat = PROMPT THEN tok.k = "prompt" ELSE tok.k = "chk" /\ tok.s = pat

MatchIdx(data, pat) == {i \in 1..Len(data) : Matches(data[i], pat)}

\* Index of the first token of data matching pat, 0 if none.
FirstMatch(data, pat) ==
  IF MatchIdx(data, pat) = {} THEN 0
  ELSE CHOOSE i \in MatchIdx(data, pat) : \A j \in MatchIdx(data, pat) : i <= j

\* bytes.partition(b'\n')[2]: what follows the first line.
Partition2(bytes) == IF bytes = <<>> THEN <<>> ELSE Tail(bytes)

\* str.encode(checkStr): the check pattern's own text, produced by no command.
Encode(line) == <<Tok("chk", 0, line)>>

\* What the device prints for command line `line` of call c: the echoed
\* command line, one line of output (found says the output is the text the
\* check pattern of that line describes), and the prompt.
Response(c, line, found) ==
  <<Tok("echo", c, 0),
    IF found THEN Tok("chk", c, line) ELSE Tok("out", c, 0),
    Tok("prompt", c, 0)>>

\* One expect(pat) on the current _adb_shell, the device delivering n more
\* tokens before the wait ends and the process ending (dies) or not.
ExpectOn(pat, n, dies) ==
  LET data == buf \o SubSeq(pend, 1, n)
      i == FirstMatch(data, pat)
  IN  IF i > 0
      THEN [kind |-> "match", before |-> SubSeq(data, 1, i - 1),
            after |-> data[i], buf |-> SubSeq(data, i + 1, Len(data)),
            pend |-> SubSeq(pend, n + 1, Len(pend)), alive |-> alive]
      ELSE IF dies \/ ~alive
      THEN [kind |-> "EOF", before |-> data, after |-> Tok("EOF", 0, 0),
            buf |-> <<>>, pend |-> <<>>, alive |-> FALSE]
      ELSE [kind |-> "TIMEOUT", before |-> data, after |-> Tok("TIMEOUT", 0, 0),
            buf |-> data, pend |-> SubSeq(pend, n + 1, Len(pend)),
            alive |-> alive]

ExpectResults(pat) ==
  {ExpectOn(pat, n, dies) : n \in 0..Len(pend), dies \in BOOLEAN}

\* The environment may cause one more transport failure.
CanFail == ~budget.limited \/ budget.faults > 0

\* A failure the environment chose (f) is taken from its budget.
Spend(f) ==
  budget' = IF f /\ budget.limited THEN [budget EXCEPT !.faults = @ - 1]
            ELSE budget

\* The wait for pat fails whatever the device still delivers.
MustFail(pat) == ~alive \/ FirstMatch(buf \o pend, pat) = 0

ApplyExpect(r) ==
  /\ before' = IF r.kind = "match" THEN <<>> ELSE r.before
  /\ buf' = r.buf
  /\ pend' = r.pend
  /\ alive' = r.alive

\* ------------------------------------------------------- command_prefix
\* Lines 66-69.
command_prefix ==
  <<"adb_path", "-P", "adb_server_port">>
    \o (IF device_name # "" THEN <<"-s", device_name>> ELSE <<>>)

\* ------------------------------------------------------------ _init_shell
\* _init_shell is entered (from the start of a shell command, or from an
\* exception handler of the send loop).
EnterInit(t) ==
  /\ pc' = [pc EXCEPT ![t] = "init"]
  /\ init_tries' = [init_tries EXCEPT ![t] = 0]
  /\ hist' = [hist EXCEPT ![t] =
        [@ EXCEPT !.allfail = TRUE, !.cmd = command_prefix \o <<"shell">>]]

\* The call leaves _execute_shell_command / _execute_normal_command with
\* result r (ok, or the exception raised) and return value out.
Leave(t, r, out) ==
  /\ result' = [result EXCEPT ![t] = r]
  /\ output' = [output EXCEPT ![t] = out]
  /\ pc' = [pc EXCEPT ![t] = "unlock"]

\* An exception no handler of the controller catches ends the call.
Crash(t, e) ==
  /\ Leave(t, e, <<>>)
  /\ UNCHANGED <<logVars, platform, srvVars, budget, ncloses, lock, shellVars, caller, args, cid, num_tries,
                 init_tries, exc, ncalls, wfd, hist, needs_reinit,
                 closed>>

\* `while num_tries < _MAX_INIT_RETRIES`
InitMayRetry(n) == n < MAX_INIT_RETRIES

\* What a spawn can do: the process starts and will print its first prompt
\* ("ok"; the wait for it can still time out), the process ends at once
\* ("dead"), or the spawn itself fails ("err").
SpawnOutcomes == {"ok", "dead", "err"}

\* Lines 220-227: the loop test and the spawn; line 246 when the loop ends.
InitSpawn(t) ==
  /\ pc[t] = "init"
  /\ IF InitMayRetry(init_tries[t])
     THEN \E o \in SpawnOutcomes :
       /\ o # "ok" => CanFail
       /\ Spend(o # "ok")
       /\ init_tries' = [init_tries EXCEPT ![t] = @ + 1]
       /\ hist' = [hist EXCEPT ![t] =
             [@ EXCEPT !.allfail = @ /\ o # "ok",
                       !.orphan = @ \/ (o # "err" /\ adb_shell /\ alive)]]
       /\ IF o = "err"
          THEN /\ IF platform = "win32"
                  \* PopenSpawn raises OSError, which line 240 does not catch.
                  THEN Leave(t, "OSError", <<>>)
                  \* pexpect.spawn raises ExceptionPexpect
                  ELSE /\ pc' = [pc EXCEPT ![t] = "init_err"]
                       /\ UNCHANGED <<result, output>>
               /\ UNCHANGED shellVars
          ELSE /\ adb_shell' = TRUE
               /\ alive' = (o # "dead")
               /\ pend' = IF o = "ok" THEN <<Tok("prompt", 0, 0)>> ELSE <<>>
               /\ buf' = <<>>
               /\ before' = <<>>
               /\ pc' = [pc EXCEPT ![t] = "init_expect"]
               /\ UNCHANGED <<shell_is_ready, result, output>>
     ELSE /\ Leave(t, "AdbControllerShellInitError", <<>>)
          /\ UNCHANGED <<shellVars, init_tries, hist, budget>>
  /\ closed' = (closed /\ pc'[t] # "init_expect")
  /\ UNCHANGED <<logVars, platform, srvVars, ncloses, lock, caller, args, cid, num_tries, exc,
                 ncalls, wfd, needs_reinit>>

\* Does the first-prompt wait of _init_shell read the stream?  With
\* async_=True (the win32 branch, line 234) expect only builds a coroutine,
\* which nobody runs: nothing is read and nothing is raised.
InitWaitsForPrompt == platform # "win32"

\* Lines 230-236: configure the new object and consume the first prompt.
InitExpect(t) ==
  /\ pc[t] = "init_expect"
  /\ IF ~adb_shell
     THEN Crash(t, "AttributeError")
     ELSE
       /\ IF InitWaitsForPrompt
          THEN \E r \in ExpectResults(PROMPT) :
                 /\ r.kind # "match" => MustFail(PROMPT) \/ CanFail
                 /\ Spend(r.kind # "match" /\ ~MustFail(PROMPT))
                 /\ ApplyExpect(r)
                 \* EOF and TIMEOUT are ExceptionPexpect (line 240)
                 /\ pc' = [pc EXCEPT ![t] = IF r.kind = "match" THEN "init_ok"
                                             ELSE "init_err"]
          ELSE /\ pc' = [pc EXCEPT ![t] = "init_ok"]
               /\ UNCHANGED <<alive, pend, buf, before, budget>>
       /\ UNCHANGED <<logVars, platform, srvVars, ncloses, lock, adb_shell, shell_is_ready,
                      caller, args, cid, num_tries, init_tries, exc, result,
                      output, ncalls, wfd, hist, needs_reinit,
                 closed>>

\* Lines 238-239: the shell is ready; back to the send loop.
InitOk(t) ==
  /\ pc[t] = "init_ok"
  /\ shell_is_ready' = TRUE
  /\ pc' = [pc EXCEPT ![t] = "loop"]
  /\ hist' = [hist EXCEPT ![t] =
        [@ EXCEPT !.allfail = TRUE, !.cmd = <<>>]]
  /\ needs_reinit' = FALSE
  /\ init_tries' = [init_tries EXCEPT ![t] = 0]
  /\ UNCHANGED <<logVars, platform, srvVars, budget, ncloses, lock, adb_shell, alive, pend, buf, before,
                 caller, args, cid, num_tries, exc, result, output, ncalls,
                 wfd, closed>>

\* Lines 240-244: log _adb_shell.before, sleep, try again.
InitErr(t) ==
  /\ pc[t] = "init_err"
  /\ IF ~adb_shell
     THEN Crash(t, "AttributeError")
     ELSE /\ pc' = [pc EXCEPT ![t] = "init"]
          /\ before' = <<>>
          /\ UNCHANGED <<logVars, platform, srvVars, budget, ncloses, lock, adb_shell, shell_is_ready,
                         alive, pend, buf, caller, args, cid, num_tries,
                         init_tries, exc, result, output, ncalls, wfd, hist,
                         needs_reinit,
                 closed>>

\* ------------------------------------------------------- _execute_command
\* Argument lists of direct callers: a one-shot command, a shell command,
\* a shell command with a check pattern.
CallerArgs ==
  {[shell |-> FALSE, line |-> 0, chk |-> FALSE],
   [shell |-> TRUE, line |-> 0, chk |-> FALSE],
   [shell |-> TRUE, line |-> 0, chk |-> TRUE]}

\* Line 118: a caller enters _execute_command.
BeginCall(t, who) ==
  /\ ncalls < budget.calls
  /\ ncalls' = ncalls + 1
  /\ cid' = [cid EXCEPT ![t] = ncalls + 1]
  /\ caller' = [caller EXCEPT ![t] = who]
  /\ pc' = [pc EXCEPT ![t] = "lock"]

Call(t) ==
  /\ pc[t] = "idle"
  /\ BeginCall(t, "cmd")
  /\ UNCHANGED <<logVars, platform, srvVars, budget, ncloses, lock, shellVars, args, num_tries, init_tries, exc,
                 result, output, wfd, hist, needs_reinit,
                 closed>>

\* A lock that excludes nobody.
NoLock == TRUE

\* `with self._execute_command_lock:` may be entered.
LockFree == lock = 0

\* Lines 119-123 and 157-163: take the lock and route the command; a shell
\* command spawns the shell first if it is not ready.
Acquire(t) ==
  /\ pc[t] = "lock"
  /\ LockFree
  /\ lock' = t
  /\ \E a \in IF caller[t] = "wfd"
              THEN {[shell |-> TRUE, line |-> wfd[t].svc, chk |-> TRUE]}
              ELSE IF caller[t] = "srv"
              THEN {[shell |-> FALSE, line |-> 0, chk |-> FALSE]}
              ELSE CallerArgs :
       /\ args' = [args EXCEPT ![t] = a]
       /\ IF ~a.shell
          THEN /\ pc' = [pc EXCEPT ![t] = "normal"]
               /\ UNCHANGED <<init_tries, hist>>
          ELSE IF ~shell_is_ready
          THEN EnterInit(t)
          ELSE /\ pc' = [pc EXCEPT ![t] = "loop"]
               /\ UNCHANGED <<init_tries, hist>>
  /\ UNCHANGED <<logVars, platform, srvVars, budget, ncloses, shellVars, caller, cid, num_tries, exc,
                 result, output, ncalls, wfd, needs_reinit,
                 closed>>

OneShotOutcomes == {"ok", "CalledProcessError", "TimeoutExpired"}

\* A one-shot path that turns a failure into a normal return.
Swallowed(o) == "ok"

\* Lines 145-147: a failure of the subprocess is raised again.
OneShotResult(o) == o

\* Lines 135-147: the one-shot subprocess.
ExecuteNormalCommand(t) ==
  /\ pc[t] = "normal"
  /\ \E o \in OneShotOutcomes :
       Leave(t, OneShotResult(o),
             IF o = "ok" THEN <<Tok("out", cid[t], 0)>> ELSE <<>>)
  /\ hist' = [hist EXCEPT ![t] =
        [@ EXCEPT !.cmd = command_prefix \o <<"args">>]]
  /\ UNCHANGED <<logVars, platform, srvVars, budget, ncloses, lock, shellVars, caller,
                 args, cid, num_tries, init_tries, exc, ncalls, wfd,
                 needs_reinit, closed>>

\* -------------------------------------------------- _execute_shell_command
\* A send loop that allows one attempt more.
OneMoreSend(n) == n <= max_num_retries

\* `while num_tries < max_num_retries`
SendMayRetry(n) == n < max_num_retries

\* Lines 164-167: the loop test and sendline; lines 201-202 when it ends.
\* The device answers a command line written to a running process.
SendLine(t) ==
  /\ pc[t] = "loop"
  /\ IF SendMayRetry(num_tries[t])
     THEN /\ num_tries' = [num_tries EXCEPT ![t] = @ + 1]
          /\ IF ~adb_shell
             THEN /\ Leave(t, "AttributeError", <<>>)
                  /\ UNCHANGED pend
             ELSE /\ pc' = [pc EXCEPT ![t] = "expect"]
                  /\ \E found \in BOOLEAN :
                       pend' = IF alive
                               THEN pend \o Response(cid[t], args[t].line, found)
                               ELSE pend
                  /\ UNCHANGED <<result, output>>
     ELSE /\ Leave(t, "AdbControllerPexpectError", <<>>)
          /\ UNCHANGED <<num_tries, pend>>
  /\ UNCHANGED <<logVars, platform, srvVars, budget, ncloses, lock, adb_shell, shell_is_ready, alive, buf, before,
                 caller, args, cid, init_tries, exc, ncalls, wfd, hist,
                 needs_reinit,
                 closed>>

\* Lines 169-172: the pattern the send waits for.
WaitPattern(t) ==
  IF platform = "win32" /\ args[t].chk THEN args[t].line ELSE PROMPT

\* Lines 176-181: the value returned after a match.
MatchOutput(bef, aft) ==
  IF platform = "win32" THEN <<aft>> ELSE Partition2(bef)

\* Lines 169-182: wait for the pattern; on a match return the output.
Expect(t) ==
  /\ pc[t] = "expect"
  /\ IF ~adb_shell
     THEN Crash(t, "AttributeError")
     ELSE \E r \in ExpectResults(WaitPattern(t)) :
       /\ r.kind # "match" => MustFail(WaitPattern(t)) \/ CanFail
       /\ Spend(r.kind # "match" /\ ~MustFail(WaitPattern(t)))
       /\ ApplyExpect(r)
       /\ IF r.kind = "match"
          THEN /\ Leave(t, "ok", MatchOutput(r.before, r.after))
               /\ UNCHANGED <<exc, hist, needs_reinit>>
          ELSE /\ pc' = [pc EXCEPT ![t] = IF r.kind = "EOF" THEN "eof"
                                          ELSE "timeout"]
               /\ exc' = [exc EXCEPT ![t] = r.kind]
               /\ needs_reinit' = (needs_reinit \/ r.kind = "EOF")
               /\ UNCHANGED <<result, output, hist>>
       /\ UNCHANGED <<logVars, platform, srvVars, ncloses, lock, adb_shell, shell_is_ready, caller, args,
                      cid, num_tries, init_tries, ncalls, wfd, closed>>

\* Lines 183-186: end-of-stream: log _adb_shell.before, reinitialize.
HandleEOF(t) ==
  /\ pc[t] = "eof"
  /\ IF ~adb_shell
     THEN Crash(t, "AttributeError")
     ELSE /\ EnterInit(t)
          /\ before' = <<>>
          /\ UNCHANGED <<logVars, platform, srvVars, budget, ncloses, lock, adb_shell, shell_is_ready,
                         alive, pend, buf, caller, args, cid, num_tries, exc,
                         result, output, ncalls, wfd, needs_reinit,
                 closed>>

\* A timeout handler that returns the partial buffer when it is not empty
\* and a check pattern was supplied.
PartialIfChecked(t) == before # <<>> /\ args[t].chk

\* Line 189: is the partial buffer returned as the result?
ReturnsPartial(t) == platform = "win32" /\ before # <<>>

\* Lines 190-196: the value returned on that path.
PartialOutput(t) == IF args[t].chk THEN Encode(args[t].line) ELSE before

\* Lines 187-199: timeout.
HandleTimeout(t) ==
  /\ pc[t] = "timeout"
  /\ IF platform = "win32" /\ ~adb_shell
     THEN Crash(t, "AttributeError")
     ELSE IF ReturnsPartial(t)
     THEN /\ Leave(t, "ok", PartialOutput(t))
          /\ buf' = <<>>
          /\ before' = <<>>
          /\ UNCHANGED <<logVars, platform, srvVars, budget, ncloses, lock, adb_shell, shell_is_ready, alive,
                         pend, caller, args, cid, num_tries, init_tries, exc,
                         ncalls, wfd, hist, needs_reinit,
                 closed>>
     ELSE /\ EnterInit(t)
          /\ needs_reinit' = TRUE
          /\ before' = <<>>
          /\ UNCHANGED <<logVars, platform, srvVars, budget, ncloses, lock, adb_shell, shell_is_ready,
                         alive, pend, buf, caller, args, cid, num_tries, exc,
                         result, output, ncalls, wfd, closed>>

\* ------------------------------------- _wait_for_device, _check_device_is_ready
\* Lines 291-297: does the returned output pass the check for service svc?
\* (not empty, and equal to the check string once stripped)
CheckPasses(out, svc) ==
  /\ out # <<>>
  /\ Len(out) = 1
  /\ out[1].k = "chk"
  /\ out[1].s = svc

\* Line 272: `while num_tries < max_tries`
WfdMayCheck(w) == w.num_tries < w.max_tries

\* Lines 273-278: what the loop body does to num_tries after a failed check.
WfdAfterCheck(n) == n

\* Lines 291-298 and 274-278: the caller's step after _execute_command has
\* ended with result r and value out: judge the output; next service, or
\* the check returns and _wait_for_device goes on.
CdrEval(t, r, out) ==
  IF r # "ok"
  THEN /\ pc' = [pc EXCEPT ![t] = "wfd_ret"]
       /\ result' = [result EXCEPT ![t] = r]
       /\ UNCHANGED wfd
  ELSE IF ~CheckPasses(out, wfd[t].svc)
  THEN /\ wfd' = [wfd EXCEPT ![t] =
             [@ EXCEPT !.ready = "false", !.num_tries = WfdAfterCheck(@)]]
       /\ pc' = [pc EXCEPT ![t] = "wfd_loop"]
       /\ result' = [result EXCEPT ![t] = "none"]
  ELSE LET g == wfd[t].genuine /\ out[1].c = cid[t] IN
       /\ result' = [result EXCEPT ![t] = "none"]
       /\ IF wfd[t].svc < NumServices
          THEN /\ wfd' = [wfd EXCEPT ![t] =
                     [@ EXCEPT !.svc = @ + 1, !.genuine = g]]
               /\ pc' = [pc EXCEPT ![t] = "cdr_call"]
          ELSE /\ wfd' = [wfd EXCEPT ![t] =
                     [@ EXCEPT !.ready = "true", !.genuine = g]]
               /\ pc' = [pc EXCEPT ![t] = "wfd_ret"]

\* Lines 119-125: the with block is left, by return or by exception, and the
\* caller takes the result.
HeldAfterError(t, r) == IF r = "ok" THEN 0 ELSE t
Unlocked(t, r) == 0

Release(t) ==
  /\ pc[t] = "unlock"
  /\ lock' = Unlocked(t, result[t])
  /\ IF caller[t] = "wfd"
     THEN /\ CdrEval(t, result[t], output[t])
          /\ UNCHANGED caller
          /\ UNCHANGED device_name_tmp
     ELSE IF caller[t] = "srv" /\ result[t] = "ok"
     THEN /\ pc' = [pc EXCEPT ![t] = "srv_restore"]
          /\ result' = [result EXCEPT ![t] = "none"]
          /\ UNCHANGED <<caller, wfd, device_name_tmp>>
     \* a plain caller; or init_server, which an exception of the call ends
     ELSE /\ pc' = [pc EXCEPT ![t] = "idle"]
          /\ caller' = [caller EXCEPT ![t] = "none"]
          /\ result' = [result EXCEPT ![t] = "none"]
          /\ device_name_tmp' = [device_name_tmp EXCEPT ![t] = ""]
          /\ UNCHANGED wfd
  /\ args' = [args EXCEPT ![t] = NoArgs]
  /\ cid' = [cid EXCEPT ![t] = 0]
  /\ output' = [output EXCEPT ![t] = <<>>]
  /\ exc' = [exc EXCEPT ![t] = "none"]
  /\ num_tries' = [num_tries EXCEPT ![t] = 0]
  /\ init_tries' = [init_tries EXCEPT ![t] = 0]
  /\ hist' = [hist EXCEPT ![t] = NoHist]
  /\ UNCHANGED <<logVars, platform, device, device_name, budget, ncloses, shellVars,
                 ncalls, needs_reinit, closed>>

WfdBegin(t) ==
  /\ pc[t] = "idle"
  /\ ncalls < budget.calls
  /\ \E m \in 0..MaxTries :
       wfd' = [wfd EXCEPT ![t] = [NoWfd EXCEPT !.max_tries = m]]
  /\ pc' = [pc EXCEPT ![t] = "wfd_loop"]
  /\ caller' = [caller EXCEPT ![t] = "wfd"]
  /\ UNCHANGED <<logVars, platform, srvVars, budget, ncloses, lock, shellVars, localVars, ncalls, needs_reinit,
                 closed>>

\* Lines 272-273 and 279: the loop test; a check starts, or the wait fails.
WfdLoop(t) ==
  /\ pc[t] = "wfd_loop"
  /\ IF WfdMayCheck(wfd[t])
     THEN /\ wfd[t].checks < MaxChecks
          /\ wfd' = [wfd EXCEPT ![t] =
                [@ EXCEPT !.checks = @ + 1, !.svc = 1, !.genuine = TRUE,
                          !.ready = "none"]]
          /\ pc' = [pc EXCEPT ![t] = "cdr_call"]
          /\ UNCHANGED result
     ELSE /\ result' = [result EXCEPT ![t] = "AdbControllerDeviceTimeoutError"]
          /\ pc' = [pc EXCEPT ![t] = "wfd_ret"]
          /\ UNCHANGED wfd
  /\ UNCHANGED <<logVars, platform, srvVars, budget, ncloses, lock, shellVars, caller, args, cid, num_tries,
                 init_tries, exc, output, ncalls, hist, needs_reinit,
                 closed>>

\* Lines 285-290: the check command of the current service.
CdrCall(t) ==
  /\ pc[t] = "cdr_call"
  /\ BeginCall(t, "wfd")
  /\ UNCHANGED <<logVars, platform, srvVars, budget, ncloses, lock, shellVars, args, num_tries, init_tries, exc,
                 result, output, wfd, hist, needs_reinit,
                 closed>>

\* _wait_for_device has returned or raised.
WfdEnd(t) ==
  /\ pc[t] = "wfd_ret"
  /\ pc' = [pc EXCEPT ![t] = "idle"]
  /\ caller' = [caller EXCEPT ![t] = "none"]
  /\ result' = [result EXCEPT ![t] = "none"]
  /\ wfd' = [wfd EXCEPT ![t] = NoWfd]
  /\ UNCHANGED <<logVars, platform, srvVars, budget, ncloses, lock, shellVars, args, cid, num_tries, init_tries,
                 exc, output, ncalls, hist, needs_reinit,
                 closed>>

\* ------------------------------------------------------------ init_server
\* Line 83: `device_name_tmp = self._device_name`
SrvBegin(t) ==
  /\ pc[t] = "idle"
  /\ ncalls < budget.calls
  /\ device_name_tmp' = [device_name_tmp EXCEPT ![t] = device_name]
  /\ pc' = [pc EXCEPT ![t] = "srv_blank"]
  /\ caller' = [caller EXCEPT ![t] = "srv"]
  /\ UNCHANGED <<logVars, platform, device, device_name, budget, ncloses, lock,
                 shellVars, localVars, ncalls, wfd, needs_reinit, closed>>

\* Lines 84-85: `self._device_name = ''` and the call of
\* `self._execute_command(['devices'], ...)`.
SrvBlank(t) ==
  /\ pc[t] = "srv_blank"
  /\ device_name' = ""
  /\ BeginCall(t, "srv")
  /\ UNCHANGED <<logVars, platform, device, device_name_tmp, budget, ncloses, lock,
                 shellVars, args, num_tries, init_tries, exc, result, output,
                 wfd, hist, needs_reinit, closed>>

\* Lines 86-88: after the call has returned, `self._device_name =
\* device_name_tmp`.
SrvRestore(t) ==
  /\ pc[t] = "srv_restore"
  /\ device_name' = device_name_tmp[t]
  /\ device_name_tmp' = [device_name_tmp EXCEPT ![t] = ""]
  /\ pc' = [pc EXCEPT ![t] = "idle"]
  /\ caller' = [caller EXCEPT ![t] = "none"]
  /\ UNCHANGED <<logVars, platform, device, budget, ncloses, lock, shellVars,
                 localVars, ncalls, wfd, needs_reinit, closed>>

\* ------------------------------------------------------------------ close
\* close() takes no lock; its statements interleave with a running command.
\* close() has ended with result r (ok, or the exception raised).
CloseLeave(t, r) ==
  /\ pc' = [pc EXCEPT ![t] = "close_ret"]
  /\ result' = [result EXCEPT ![t] = r]

\* Line 93: `if self._adb_shell is not None` (otherwise close does nothing).
CloseBegin(t) ==
  /\ pc[t] = "idle"
  /\ ncloses < budget.closes
  /\ ncloses' = ncloses + 1
  /\ caller' = [caller EXCEPT ![t] = "close"]
  /\ IF adb_shell
     THEN /\ pc' = [pc EXCEPT ![t] = "close_kill"]
          /\ UNCHANGED result
     ELSE CloseLeave(t, "ok")
  /\ UNCHANGED <<logVars, platform, srvVars, budget, lock, shellVars, args, cid, num_tries,
                 init_tries, exc, output, hist, ncalls, wfd, needs_reinit,
                 closed>>

\* Does the shell object have a close() method?  pexpect.spawn has one;
\* pexpect.popen_spawn.PopenSpawn (the win32 branch of line 225) has none.
ShellHasClose == platform # "win32"

\* Line 95: `self._adb_shell.close(force=True)`.  It raises AttributeError
\* if the object has no close(), or if another close() has removed the
\* object meanwhile; close() then ends there.
CloseKill(t) ==
  /\ pc[t] = "close_kill"
  /\ IF adb_shell /\ ShellHasClose
     THEN /\ alive' = FALSE
          /\ pend' = <<>>
          /\ pc' = [pc EXCEPT ![t] = "close_none"]
          /\ UNCHANGED result
     ELSE /\ CloseLeave(t, "AttributeError")
          /\ UNCHANGED <<alive, pend>>
  /\ UNCHANGED <<logVars, platform, srvVars, budget, ncloses, lock, adb_shell, shell_is_ready,
                 buf, before, caller, args, cid, num_tries, init_tries, exc,
                 output, hist, ncalls, wfd, needs_reinit, closed>>

\* Line 96: `self._adb_shell = None`
CloseNone(t) ==
  /\ pc[t] = "close_none"
  /\ adb_shell' = FALSE
  /\ alive' = FALSE
  /\ pend' = <<>>
  /\ buf' = <<>>
  /\ before' = <<>>
  /\ pc' = [pc EXCEPT ![t] = "close_flag"]
  /\ UNCHANGED <<logVars, platform, srvVars, budget, ncloses, lock, shell_is_ready, caller,
                 localVars, ncalls, wfd, needs_reinit, closed>>

\* Line 97: `self._shell_is_ready = False`
CloseFlag(t) ==
  /\ pc[t] = "close_flag"
  /\ shell_is_ready' = FALSE
  /\ CloseLeave(t, "ok")
  /\ UNCHANGED <<logVars, platform, srvVars, budget, ncloses, lock, adb_shell, alive, pend,
                 buf, before, caller, args, cid, num_tries, init_tries, exc,
                 output, hist, ncalls, wfd, needs_reinit, closed>>

\* Line 98: close() returns (or its exception reaches the caller).
CloseEnd(t) ==
  /\ pc[t] = "close_ret"
  /\ pc' = [pc EXCEPT ![t] = "idle"]
  /\ caller' = [caller EXCEPT ![t] = "none"]
  /\ result' = [result EXCEPT ![t] = "none"]
  /\ closed' = TRUE
  /\ UNCHANGED <<logVars, platform, srvVars, budget, ncloses, lock, shellVars, args, cid,
                 num_tries, init_tries, exc, output, hist, ncalls, wfd,
                 needs_reinit>>

\* The positions of a thread inside `with self._execute_command_lock:`.
InLock == {"normal", "loop", "expect", "eof", "timeout", "init",
           "init_expect", "init_ok", "init_err", "unlock"}

\* ------------------------------------------------------------ specification
\* The steps of thread t inside _execute_command on the shell path.
ShellStep(t) ==
  \/ Acquire(t)
  \/ SendLine(t)
  \/ Expect(t)
  \/ HandleEOF(t)
  \/ HandleTimeout(t)
  \/ InitSpawn(t)
  \/ InitExpect(t)
  \/ InitOk(t)
  \/ InitErr(t)
  \/ Release(t)

\* The steps of thread t inside _execute_command.
ExecStep(t) == ExecuteNormalCommand(t) \/ ShellStep(t)

\* The steps of thread t in close().
CloseStep(t) ==
  \/ CloseBegin(t)
  \/ CloseKill(t)
  \/ CloseNone(t)
  \/ CloseFlag(t)
  \/ CloseEnd(t)

\* The steps of thread t in _wait_for_device, outside _execute_command.
WfdStep(t) ==
  \/ WfdBegin(t)
  \/ WfdLoop(t)
  \/ CdrCall(t)
  \/ WfdEnd(t)

\* The steps of thread t in init_server, outside _execute_command.
SrvStep(t) ==
  \/ SrvBegin(t)
  \/ SrvBlank(t)
  \/ SrvRestore(t)

Step(t) == Call(t) \/ ExecStep(t) \/ CloseStep(t) \/ WfdStep(t)

\* Threads issue commands and close the controller concurrently.
Next == \E t \in Threads : Call(t) \/ ExecStep(t) \/ CloseStep(t)

Spec == Init /\ [][Next]_vars

\* The controller used by one thread (commands and close).
SeqNext == Call(1) \/ ExecStep(1) \/ CloseStep(1)

SeqSpec == SeqInit /\ [][SeqNext]_vars

\* Threads issue commands while init_server runs.
SrvInit ==
  /\ InitWith([calls |-> ConcCalls, closes |-> 0, limited |-> TRUE,
            faults |-> SrvFaults], Devices)
  /\ NoLogcat

SrvNext == \E t \in Threads : Call(t) \/ ExecStep(t) \/ SrvStep(t)

SrvSpec == SrvInit /\ [][SrvNext]_vars

\* Threads issue commands over a transport that fails as often as it
\* likes; nobody closes the controller.  Every thread keeps running: a
\* thread inside _execute_command takes its next step, and a thread waiting
\* for the lock gets it once the lock stays free.
LockInit ==
  /\ InitWith([calls |-> ConcCalls, closes |-> 0, limited |-> FALSE,
               faults |-> 0], {""})
  /\ NoLogcat

LockNext == \E t \in Threads : Call(t) \/ ExecStep(t)

LockSpec ==
  /\ LockInit
  /\ [][LockNext]_vars
  /\ \A t \in Threads : WF_vars(ExecStep(t))

\* One thread in _wait_for_device.
WfdNext == WfdStep(1) \/ ShellStep(1)

WfdSpec == WfdInit /\ [][WfdNext]_vars

\* The thread keeps running while it is inside _execute_command: every wait
\* is bounded by its timeout, every sleep ends.
LiveSpec == LiveInit /\ [][Step(1)]_vars /\ WF_vars(ExecStep(1))

\* A log monitor with its read loop, callers that add and remove
\* listeners, and one thread in wait().
LogInit ==
  /\ InitWith([calls |-> 0, closes |-> 0, limited |-> TRUE, faults |-> 0], {""})
  /\ platform = "posix"
  /\ LogcatInit(BOOLEAN)

LogNext ==
  \/ \E l \in Listeners, a \in BOOLEAN : add_event_listener(l, a)
  \/ \E l \in Listeners : remove_event_listener(l)
  \/ \E line \in LogLines : send_value(line)
  \/ LoopRead
  \/ \E l \in Listeners : LoopHandle(l)
  \/ LoopSignal
  \/ \E e \in Events : WaitBegin(e)
  \/ WaitWake
  \/ WaitTimeout
  \/ WaitEnd

LogSpec == LogInit /\ [][LogNext]_vars

\* The read loop with callers that add and remove listeners while it
\* dispatches; nobody waits.
DispNext ==
  \/ \E l \in Listeners, a \in BOOLEAN : add_event_listener(l, a)
  \/ \E l \in Listeners : remove_event_listener(l)
  \/ \E line \in LogLines : send_value(line)
  \/ LoopRead
  \/ \E l \in Listeners : LoopHandle(l)
  \/ LoopSignal

DispSpec == LogInit /\ [][DispNext]_vars

\* A log monitor whose listeners are all registered and active; callers
\* only remove listeners from then on.
RemInit ==
  /\ InitWith([calls |-> 0, closes |-> 0, limited |-> TRUE, faults |-> 0], {""})
  /\ platform = "posix"
  /\ print_all_lines \in BOOLEAN
  /\ listeners = Listeners
  /\ lactive = [l \in Listeners |-> TRUE]
  /\ fed = <<>>
  /\ rd = 0
  /\ loop = NoLoop
  /\ handled = [l \in Listeners |-> <<>>]
  /\ waiter = NoWaiter
  /\ Started(TestConfig)

RemNext ==
  \/ \E l \in Listeners : remove_event_listener(l)
  \/ \E line \in LogLines : send_value(line)
  \/ LoopRead
  \/ \E l \in Listeners : LoopHandle(l)
  \/ LoopSignal
  \/ \E e \in Events : WaitBegin(e)
  \/ WaitWake
  \/ WaitTimeout
  \/ WaitEnd

RemSpec == RemInit /\ [][RemNext]_vars

\* A log monitor is constructed with some prefix and filters, and killed.
CmdInit ==
  /\ InitWith([calls |-> 0, closes |-> 0, limited |-> TRUE, faults |-> 0], {""})
  /\ platform = "posix"
  /\ print_all_lines = FALSE
  /\ listeners = {}
  /\ lactive = [l \in Listeners |-> FALSE]
  /\ fed = <<>>
  /\ rd = 0
  /\ loop = NoLoop
  /\ handled = [l \in Listeners |-> <<>>]
  /\ waiter = NoWaiter
  /\ proc = "none"
  /\ nkills = 0
  /\ config \in Configs
  /\ popen = <<>>

CmdNext == LogcatConstruct \/ kill \/ LoopExit

CmdSpec == CmdInit /\ [][CmdNext]_vars

\* A log monitor with its listeners registered, one thread in wait(), and
\* a caller of kill().  A thread that has been signalled or unblocked runs,
\* and the read loop keeps running; nothing is assumed about how long a
\* timeout takes.
KillNext ==
  \/ kill
  \/ \E line \in LogLines : send_value(line)
  \/ LoopRead
  \/ \E l \in Listeners : LoopHandle(l)
  \/ LoopSignal
  \/ LoopExit
  \/ \E e \in Events : WaitBegin(e)
  \/ WaitWake
  \/ WaitKilled
  \/ WaitTimeout
  \/ WaitEnd

KillSpec ==
  /\ RemInit
  /\ [][KillNext]_vars
  /\ WF_vars(WaitWake \/ WaitKilled)
  /\ WF_vars(LoopRead \/ (\E l \in Listeners : LoopHandle(l)) \/ LoopSignal
               \/ LoopExit)

\* ------------------------------------------------------------- properties
\* C1: at most one thread is inside the critical section of
\* _execute_command at any time, and the lock is held by that thread from
\* its entry to its exit, through every reinitialization and resend.
C1_OneCommandAtATime ==
  \A t \in Threads : pc[t] \in InLock =>
    /\ lock = t
    /\ \A u \in Threads \ {t} : pc[u] \notin InLock

\* A command is being resent after a reinitialization while another thread
\* waits for the lock.
C1_ResendWhileOtherWaits ==
  \E t, u \in Threads :
    /\ t # u
    /\ pc[t] = "expect"
    /\ num_tries[t] = 2
    /\ pc[u] = "lock"

\* C2: the bytes a call returns are output of the command that call issued:
\* no line of them was produced by the device for another call's command.
C2_OnlyOwnOutput ==
  \A t \in Threads : (pc[t] = "unlock" /\ result[t] = "ok") =>
    \A i \in 1..Len(output[t]) : output[t][i].c \in {0, cid[t]}

\* C3: when the shell process ended once during a command (EOF) and the
\* command was resent after the reinitialization, the call returns what the
\* device printed for that command.
C3_ResendReturnsOwnOutput ==
  \A t \in Threads :
    (pc[t] = "unlock" /\ result[t] = "ok" /\ exc[t] = "EOF"
       /\ num_tries[t] = 2) =>
      /\ output[t] # <<>>
      /\ \A i \in 1..Len(output[t]) : output[t][i].c = cid[t]

\* C4: _init_shell returns normally only after an attempt whose process
\* printed a prompt, and when its attempts fail it ends only by raising
\* AdbControllerShellInitError after exactly _MAX_INIT_RETRIES attempts.
C4_InitTriesTwentyTimes ==
  \A t \in Threads :
    /\ pc[t] = "init_ok" => ~hist[t].allfail
    /\ (pc[t] = "unlock" /\ init_tries[t] > 0) =>
         /\ result[t] = "AdbControllerShellInitError"
         /\ init_tries[t] = MAX_INIT_RETRIES

\* C5: _wait_for_device calls _check_device_is_ready at most max_tries
\* times.
C5_AtMostMaxTriesChecks ==
  \A t \in Threads : wfd[t].checks <= wfd[t].max_tries

\* C6: _check_device_is_ready returns True only if, for each of the four
\* required services, the device itself printed the expected text in answer
\* to that check command.
C6_ReadyOnlyIfDeviceAnswered ==
  \A t \in Threads : wfd[t].ready = "true" => wfd[t].genuine

\* The timeout handler of thread t ends by returning a value.
TimeoutReturns(t) ==
  pc[t] = "timeout" /\ pc'[t] = "unlock" /\ result'[t] = "ok"

\* The timeout handler of thread t ends by reinitializing the shell.
TimeoutReinits(t) == pc[t] = "timeout" /\ pc'[t] = "init"

\* C7 (as amended): on a timeout the handler returns at once exactly when
\* the platform is win32 and the partial buffer is not empty, whether or not
\* a check pattern was supplied; the value returned is the check pattern's
\* own bytes if one was supplied, else the partial buffer.  Otherwise the
\* shell is reinitialized and the command retried (on win32 the handler
\* raises AttributeError if close() has removed the shell meanwhile).
C7_PartialOnWin32NonEmpty ==
  [][\A t \in Threads : (pc[t] = "timeout" /\ pc'[t] # "timeout") =>
       IF platform = "win32" /\ before # <<>> /\ adb_shell
       THEN /\ TimeoutReturns(t)
            /\ output'[t] = IF args[t].chk THEN Encode(args[t].line)
                            ELSE before
       ELSE \/ TimeoutReinits(t)
            \/ /\ platform = "win32"
               /\ ~adb_shell
               /\ pc'[t] = "unlock"
               /\ result'[t] = "AttributeError"]_vars

\* A timeout of a command without check pattern has returned the partial
\* buffer.
C7_PartialWithoutCheck ==
  \E t \in Threads :
    /\ pc[t] = "unlock"
    /\ exc[t] = "TIMEOUT"
    /\ result[t] = "ok"
    /\ ~args[t].chk
    /\ output[t] # <<>>

\* C7 (as stated): on a timeout the partial buffer is returned if and only
\* if it is not empty and a check pattern was supplied; otherwise the shell
\* is reinitialized and the command retried.
C7_PartialIffCheckSupplied ==
  [][\A t \in Threads : (pc[t] = "timeout" /\ pc'[t] # "timeout") =>
       IF before # <<>> /\ args[t].chk
       THEN TimeoutReturns(t)
       ELSE TimeoutReinits(t)]_vars

DocumentedErrors ==
  {"AdbControllerShellInitError", "AdbControllerPexpectError",
   "CalledProcessError", "TimeoutExpired"}

C10_WriteOnlyToReadyShell ==
  [][\A t \in Threads : (pc[t] = "loop" /\ pc'[t] = "expect") =>
       shell_is_ready /\ ~needs_reinit]_vars

\* C11: _init_shell marks the shell ready only in a step that has read the
\* prompt from the newly spawned process, on every platform; and no command
\* line is written while the first prompt of the current process is unread.
C11_ReadyOnlyAfterPrompt ==
  [][\A t \in Threads :
       /\ (pc[t] = "init_expect" /\ pc'[t] = "init_ok") =>
            /\ FirstMatch(buf \o pend, PROMPT) > 0
            /\ Len(buf' \o pend') =
                 Len(buf \o pend) - FirstMatch(buf \o pend, PROMPT)
       /\ (pc[t] = "loop" /\ pc'[t] = "expect") =>
            \A i \in 1..Len(buf \o pend) :
              (buf \o pend)[i] # Tok("prompt", 0, 0)]_vars

\* C12: with close() running concurrently, a call of _execute_command never
\* ends with an AttributeError on a missing shell, and when no operation is
\* running the shell is marked ready only if a shell object exists.
C12_CloseIsSafe ==
  /\ \A t \in Threads : pc[t] = "unlock" => result[t] # "AttributeError"
  /\ (\A t \in Threads : pc[t] = "idle") => (shell_is_ready => adb_shell)

\* C13: when close() ends it has raised nothing, the shell process is
\* terminated, _adb_shell is None and _shell_is_ready is false, whatever the
\* state it was called in (never started, ready, already closed).
C13_CloseLeavesNoShell ==
  \A t \in Threads : pc[t] = "close_ret" =>
    /\ result[t] = "ok"
    /\ ~adb_shell
    /\ ~shell_is_ready
    /\ ~alive

\* The results of a one-shot subprocess that failed.
OneShotFailures == OneShotOutcomes \ {"ok"}

C15_OneShellAlive ==
  \A t \in Threads : ~hist[t].orphan

\* The command line cmd starts with adb_path, -P, the server port, and then
\* -s and the device identifier exactly when one is configured; one more
\* word follows.
WellPrefixed(cmd) ==
  LET want == <<"adb_path", "-P", "adb_server_port">>
                \o (IF device # "" THEN <<"-s", device>> ELSE <<>>)
  IN  /\ Len(cmd) = Len(want) + 1
      /\ SubSeq(cmd, 1, Len(want)) = want

\* C16: every subprocess a command starts (init_server's own
\* device-independent `devices` call aside) is invoked with the prefix
\* adb_path -P port, followed by -s device exactly when a device is
\* configured; a shell spawn ends with the word shell.
C16_EveryInvocationPrefixed ==
  [][\A t \in Threads : caller[t] # "srv" =>
       /\ (pc[t] = "normal" /\ pc'[t] = "unlock") =>
            WellPrefixed(hist'[t].cmd)
       /\ (pc[t] = "init" /\ init_tries'[t] > init_tries[t]) =>
            /\ WellPrefixed(hist[t].cmd)
            /\ hist[t].cmd[Len(hist[t].cmd)] = "shell"]_vars

\* C17: a shell command that succeeds returns the lines the device printed
\* for it between the command line and the next prompt: neither the echoed
\* command line nor a prompt, on every platform.
C17_OutputBetweenEchoAndPrompt ==
  \A t \in Threads :
    (pc[t] = "unlock" /\ result[t] = "ok" /\ args[t].shell
       /\ exc[t] = "none") =>
      /\ output[t] # <<>>
      /\ \A i \in 1..Len(output[t]) :
           output[t][i].k \in {"out", "chk"} /\ output[t][i].c = cid[t]

\* C18: a shell is spawned only by a shell command that found the session
\* not ready or whose send has failed, and after close() no command line is
\* written before a new shell has been spawned.
C18_LazySpawn ==
  [][\A t \in Threads :
       /\ (pc[t] = "init" /\ init_tries'[t] > init_tries[t]) =>
            /\ args[t].shell
            /\ ~shell_is_ready \/ exc[t] \in {"EOF", "TIMEOUT"}
       /\ (pc[t] = "loop" /\ pc'[t] = "expect") => ~closed]_vars

C20_WaitNoneWakesOnAnyListener ==
  ( /\ waiter.pc = "returned"
    /\ ~waiter.event.some
    /\ waiter.due )
  => /\ waiter.result
     /\ \E l \in waiter.snap :
          /\ Search(PatternOf(l), Offered(fed[waiter.by]))
          /\ l \in Fired(waiter.by)

\* C20, witness: wait(event=None) returned true on a line that only the
\* second of two registered listeners matches.
C20_WokenByOtherListener ==
  /\ waiter.pc = "returned"
  /\ ~waiter.event.some
  /\ waiter.result
  /\ waiter.snap = Listeners
  /\ Fired(waiter.by) = {2}

\* C21: a line the loop takes while L is not registered is not dispatched
\* to L, and L's handler is invoked only by the dispatch of a line whose
\* snapshot holds L; so no line arriving after remove_event_listener(L)
\* invokes L's handler.  The removal leaves a dispatch in progress as it is.
C21_RemovedListenerNotInvoked ==
  [][\A l \in Listeners :
       /\ (rd' = rd + 1 /\ l \notin listeners) => l \notin loop'.todo
       /\ handled'[l] # handled[l]
            => /\ loop.pc = "dispatch"
               /\ l \in loop.todo
               /\ handled'[l] = Append(handled[l], loop.no)
       /\ (loop.pc = "dispatch" /\ loop'.pc = "dispatch")
            => loop'.no = loop.no /\ loop'.todo \subseteq loop.todo
       /\ (l \in listeners /\ l \notin listeners')
            => loop' = loop /\ handled' = handled]_vars

\* C21, witness: listener 1 was removed; a line matching its pattern then
\* arrived and woke the outstanding wait for that pattern, and the handler
\* of listener 1 was never invoked.
C21_RemovedListenerSkipped ==
  /\ 1 \notin listeners
  /\ rd = 1
  /\ loop.pc = "read"
  /\ Search(PatternOf(1), Offered(fed[1]))
  /\ handled[1] = <<>>
  /\ waiter.pc = "returned"
  /\ waiter.event = Event(PatternOf(1))
  /\ waiter.result
  /\ waiter.by = 1

C24_KillIsIdempotent ==
  /\ [](proc = (IF nkills = 0 THEN "alive" ELSE "dead"))
  /\ [][(nkills' > nkills /\ nkills > 0)
          => /\ proc' = proc
             /\ popen' = popen
             /\ loop' = loop
             /\ handled' = handled
             /\ listeners' = listeners
             /\ waiter'.pc = waiter.pc]_vars

\* C24, witness: kill() has been called twice on a monitor whose subprocess
\* was started once.
C24_KilledTwice ==
  /\ nkills = 2
  /\ proc = "dead"
  /\ Len(popen) = 1

\* C25: when the dispatch of a line ends, the handler of every listener
\* that was registered and active when the loop took the line, and whose
\* pattern matches the line's text (the message, or the raw text of a line
\* without the layout), has been invoked exactly once for it, and no other
\* handler has been invoked for it; a line is dispatched over the listeners
\* registered and active when it is taken, a raw line only when
\* print_all_lines is set; no handler is ever invoked twice for a line.
C25_EachMatchInvokedOnce ==
  /\ [](\A l \in Listeners : \A n \in 1..Len(fed) : Count(handled[l], n) <= 1)
  /\ [][/\ (loop.pc = "dispatch" /\ loop'.pc # "dispatch")
             => \A l \in Listeners :
                  Count(handled[l], loop.no) =
                    IF /\ l \in loop.snap
                       /\ Search(PatternOf(l),
                                 IF IsLayout(fed[loop.no])
                                 THEN Message(fed[loop.no]) ELSE fed[loop.no])
                    THEN 1 ELSE 0
        /\ rd' = rd + 1
             => IF ~IsLayout(fed[rd']) /\ ~print_all_lines
                THEN loop'.pc = "read" /\ handled' = handled
                ELSE /\ loop'.pc = "dispatch"
                     /\ loop'.no = rd'
                     /\ loop'.snap = {l \in listeners : lactive[l]}
        /\ (loop.pc = "dispatch" /\ loop'.pc = "dispatch")
             => loop'.no = loop.no /\ loop'.snap = loop.snap
        /\ loop.pc # "dispatch" => handled' = handled]_vars

\* C25, witness: with print_all_lines set, a raw line was dispatched over
\* both listeners; the handler of the listener it matches ran once, the
\* other handler did not run.
C25_RawLineInvokedOneHandler ==
  /\ print_all_lines
  /\ rd = 1
  /\ ~IsLayout(fed[1])
  /\ loop.pc = "read"
  /\ listeners = Listeners
  /\ \A l \in Listeners : lactive[l]
  /\ handled[1] = <<>>
  /\ handled[2] = <<1>>

\* C26: the snapshot of a dispatch is the set of listeners registered and
\* active at the instant the loop takes the line; adding or removing a
\* listener while a dispatch is in progress leaves that dispatch as it is;
\* every step of a dispatch serves one listener of the snapshot that has
\* not been served yet, and the dispatch ends only when none is left: no
\* listener of the snapshot is skipped or visited twice.
C26_DispatchOverSnapshot ==
  [][/\ (rd' = rd + 1 /\ loop'.pc = "dispatch")
          => /\ loop'.snap = {l \in listeners : lactive[l]}
             /\ loop'.todo = loop'.snap
     /\ (listeners' # listeners \/ lactive' # lactive)
          => loop' = loop /\ handled' = handled
     /\ (loop.pc = "dispatch" /\ loop'.pc = "dispatch" /\ loop' # loop)
          => /\ loop'.snap = loop.snap
             /\ \E l \in loop.todo : loop'.todo = loop.todo \ {l}
     /\ (loop.pc = "dispatch" /\ handled' # handled)
          => \E l \in loop.todo :
               /\ loop'.todo = loop.todo \ {l}
               /\ \A k \in Listeners \ {l} : handled'[k] = handled[k]
     /\ (loop.pc = "dispatch" /\ loop'.pc # "dispatch")
          => loop.todo = {} /\ loop'.pc = "read"]_vars

\* C26, witness: listener 2 was removed while a dispatch whose snapshot
\* holds it was in progress; listener 1 has been served, listener 2 is
\* still to be served.
C26_RemovedDuringDispatch ==
  /\ loop.pc = "dispatch"
  /\ loop.snap = Listeners
  /\ loop.todo = {2}
  /\ listeners = {1}

\* C27: before construction no subprocess has been started; from
\* construction on exactly one has, and its argument list is the given
\* prefix, then 'logcat', '-v', 'epoch', then the configured filters in
\* their order, then '*:S'.
C27_OneLogcatCommand ==
  IF proc = "none" THEN popen = <<>>
  ELSE /\ Len(popen) = 1
       /\ LET c == popen[1]
              p == Len(config.prefix)
              f == Len(config.filters)
          IN /\ Len(c) = p + 3 + f + 1
             /\ \A i \in 1..p : c[i] = config.prefix[i]
             /\ c[p + 1] = "logcat"
             /\ c[p + 2] = "-v"
             /\ c[p + 3] = "epoch"
             /\ \A i \in 1..f : c[p + 3 + i] = config.filters[i]
             /\ c[p + 3 + f + 1] = "*:S"

\* C27, witness: a monitor was constructed with a prefix naming a device
\* and two different filters.
C27_StartedWithDeviceAndFilters ==
  /\ proc = "alive"
  /\ Len(popen) = 1
  /\ \E i \in 1..Len(config.prefix) : config.prefix[i] = "-s"
  /\ Len(config.filters) = 2
  /\ config.filters[1] # config.filters[2]

\* C28: when a call ends with AdbControllerShellInitError, raised by the
\* first _init_shell or by one inside the retry loop, _shell_is_ready is
\* false.
C28_NotReadyAfterInitError ==
  \A t \in Threads :
    (pc[t] = "unlock" /\ result[t] = "AdbControllerShellInitError")
      => ~shell_is_ready

\* C29: a thread holds the command lock only while it is inside
\* _execute_command; when a call leaves, with a value or with any
\* exception, the lock is free; and every thread waiting for the lock
\* eventually holds it.
C29_LockReleasedOnEveryExit ==
  /\ [](\A t \in Threads : lock = t => pc[t] \in InLock)
  /\ [][\A t \in Threads :
          (pc[t] = "unlock" /\ pc'[t] # "unlock") => lock' = 0]_vars
  /\ \A t \in Threads : (pc[t] = "lock") ~> (lock = t)

\* C29, witness: a call is about to leave with AdbControllerPexpectError
\* while another thread waits for the lock.
C29_FailedCallBesideWaiter ==
  \E t, u \in Threads :
    /\ pc[t] = "unlock"
    /\ result[t] = "AdbControllerPexpectError"
    /\ lock = t
    /\ pc[u] = "lock"

\* C30: init_server leaves the configured device name unchanged on every
\* exit: when a thread leaves init_server, by return or because the
\* `devices` command raised, _device_name equals the value it had when the
\* thread entered (the one saved on line 83).
C30_DeviceNameKeptOnEveryExit ==
  [][\A t \in Threads :
       (caller[t] = "srv" /\ caller'[t] = "none") =>
         device_name' = device_name_tmp[t]]_vars
====
